---- MODULE Spec2Model ----
(***************************************************************************)
(* College Club App API (src/main.py): register / login / logout with      *)
(* tokens kept in user.sessions, and admin-gated creation of clubs and     *)
(* events.  Every handler is a sequence of database calls; one call is one *)
(* atomic step, and the handlers of different workers interleave between   *)
(* their calls (FastAPI runs `def` handlers on a thread pool).             *)
(*                                                                         *)
(* Modelled as given: every database call succeeds (the handlers catch no  *)
(* database error); a token drawn from secrets.token_urlsafe(32) differs   *)
(* from every token drawn before; a client sends no token, an empty one,   *)
(* one that was never issued, or one that was issued; a document's _id is  *)
(* its position in its collection (documents are never deleted).           *)
(* database.py is not part of the sources: create_document is modelled as  *)
(* the insert of one document that returns the new document's id.          *)
(***************************************************************************)
EXTENDS Integers, Sequences, FiniteSets, TLC

\* ------------------------------------------------------------------ bounds
MaxUsers    == 2   \* user documents ever inserted
MaxTokens   == 3   \* session tokens ever issued
MaxDocs     == 1   \* club and event documents ever inserted

\* The workers that serve requests at the same time.
Procs       == {"w1", "w2"}

\* ------------------------------------------------------------ input domains
Emails      == {"a@x.org", "b@x.org"}
Passwords   == {"pw1", "pw2"}
Names       == {"Ann"}
ClubNames   == {"chess"}
Titles      == {"meetup"}
Dates       == {"2026-01-01"}
None        == "None"            \* Python's None, for Optional[str] values
Descriptions == {"about"}
ClubIds     == {"c1"}
BogusToken  == "bogus"           \* a non-empty string that was never issued

\* ----------------------------------------------------------------- helpers
PASSWORD_SALT == "static_salt"

\* sha256(f"{salt}:{password}").hexdigest(), as a symbolic digest: equal
\* digests exactly for equal (salt, password).
hash_password(password) == <<"sha256", PASSWORD_SALT, ":", password>>

\* secrets.token_urlsafe(32): 256 random bits.  n is the number of tokens
\* drawn so far; the draw is modelled as fresh (no collision).
new_session_token(n) == "tok" \o ToString(n + 1)

\* The result of find_one when nothing matches.
NoneUser == [_id |-> 0]

Min(S) == CHOOSE i \in S : \A j \in S : i <= j

\* collection.find_one(filter): the first matching document, or None.
\* matching is the set of positions of the documents the filter matches.
find_one(us, matching) ==
    IF matching = {} THEN NoneUser ELSE us[Min(matching)]

InSeq(x, s) == \E k \in 1..Len(s) : s[k] = x

\* Mutant: the filter names the wrong field.
get_user_by_email_ByName(us, email) ==
    find_one(us, {i \in 1..Len(us) : us[i].name = email})

get_user_by_email(us, email) ==
    find_one(us, {i \in 1..Len(us) : us[i].email = email})

get_user_by_token(us, token) ==
    IF token = ""
    THEN NoneUser
    ELSE find_one(us, {i \in 1..Len(us) : InSeq(token, us[i].sessions)})

\* `token or ""`
TokenOrEmpty(token) == IF token = None THEN "" ELSE token

\* Mutant: `<= 1` for `== 0`.
is_first_user_OffByOne(us) == Len(us) <= 1

\* Mutant: every registrant is taken for the first.
is_first_user_Always(us) == TRUE

\* count_documents({}) == 0
is_first_user(us) == Len(us) = 0

\* Mutant: $set for $push (the list is replaced by the new token).
PushSession_Set(us, id, token) ==
    [i \in 1..Len(us) |->
        IF us[i]._id = id
        THEN [us[i] EXCEPT !.sessions = <<token>>]
        ELSE us[i]]

\* Mutant: update_many with an empty filter (the token goes to every user).
PushSession_Many(us, id, token) ==
    [i \in 1..Len(us) |-> [us[i] EXCEPT !.sessions = Append(@, token)]]

\* update_one({"_id": id}, {"$push": {"sessions": token}})
PushSession(us, id, token) ==
    [i \in 1..Len(us) |->
        IF us[i]._id = id
        THEN [us[i] EXCEPT !.sessions = Append(@, token)]
        ELSE us[i]]

\* Mutant: the whole session list is dropped.
PullSession_Clear(us, id, token) ==
    [i \in 1..Len(us) |->
        IF us[i]._id = id
        THEN [us[i] EXCEPT !.sessions = <<>>]
        ELSE us[i]]

\* update_one({"_id": id}, {"$pull": {"sessions": token}})
PullSession(us, id, token) ==
    [i \in 1..Len(us) |->
        IF us[i]._id = id
        THEN [us[i] EXCEPT !.sessions = SelectSeq(@, LAMBDA t : t # token)]
        ELSE us[i]]

\* ------------------------------------------------------------------- state
VARIABLES
    users,    \* db["user"]: documents in insertion order
    clubs,    \* db["club"]
    events,   \* db["event"]
    ntokens,  \* tokens drawn from new_session_token so far
    pc,       \* per worker: the database call its handler makes next
    req,      \* per worker: the request being served (kind, body, token)
    loc,      \* per worker: the handler's local variables
    sent      \* the response on its way out, with its request and worker
              \* (NoResp when there is none)

vars == <<users, clubs, events, ntokens, pc, req, loc, sent>>

NoReq  == [kind |-> "none"]
\* chk and cnt are history: how many documents db["user"] held when the
\* register call ran its existence check and its count.
NoLoc  == [user |-> NoneUser, is_first_user |-> FALSE, inserted_id |-> 0,
           chk |-> 0, cnt |-> 0]
NoResp == [by |-> None]

Init ==
    /\ users = <<>>
    /\ clubs = <<>>
    /\ events = <<>>
    /\ ntokens = 0
    /\ pc = [p \in Procs |-> "idle"]
    /\ req = [p \in Procs |-> NoReq]
    /\ loc = [p \in Procs |-> NoLoc]
    /\ sent = NoResp

\* Tokens a client can send: none, the empty string, a string that was never
\* issued, or any token issued so far.
IssuedTokens == {new_session_token(n) : n \in 0..(ntokens - 1)}
TokenInputs  == {None, "", BogusToken} \cup IssuedTokens

HTTPException(code) == [status |-> code]

\* Calls in flight that will still insert a user / draw a token / insert a
\* club / insert an event (the bounds cap what may be started).
PendingUsers  == Cardinality({p \in Procs : pc[p] \in {"reg_count", "reg_insert"}})
PendingTokens == Cardinality({p \in Procs :
                     pc[p] \in {"reg_count", "reg_insert", "reg_push", "login_push"}})
PendingDocs   == Cardinality({p \in Procs : pc[p] \in {"club_insert", "event_insert"}})

\* An arriving request is handed to a free worker.  The workers are
\* interchangeable, so it is always the same one of the free workers.
FreeWorker ==
    IF \E p \in Procs : pc[p] = "idle"
    THEN CHOOSE p \in Procs : pc[p] = "idle"
    ELSE None

\* The handler of request rq returns (or raises) r: the response is sent and
\* the worker is free for the next request.
Finish(p, rq, r) ==
    /\ sent = NoResp
    /\ pc' = [pc EXCEPT ![p] = "idle"]
    /\ req' = [req EXCEPT ![p] = NoReq]
    /\ loc' = [loc EXCEPT ![p] = NoLoc]
    /\ sent' = [by |-> p, req |-> rq, resp |-> r]

\* The handler of request rq goes on to its database call l.
Goto(p, rq, l) ==
    /\ sent = NoResp
    /\ pc' = [pc EXCEPT ![p] = l]
    /\ req' = [req EXCEPT ![p] = rq]
    /\ sent' = NoResp

\* What a handler reads of a user document it found.
Found(user) ==
    [_id |-> user._id, is_admin |-> user.is_admin,
     name |-> user.name, email |-> user.email]

\* --------------------------------------------------------------- register
RegisterRequest(n, e, w) ==
    [kind |-> "register", token |-> None,
     body |-> [name |-> n, email |-> e, password |-> w]]

\* Mutant: the existence check is left out.
RegisterCheck_NoCheck(p) ==
    /\ p = FreeWorker
    /\ Len(users) + PendingUsers < MaxUsers
    /\ ntokens + PendingTokens < MaxTokens
    /\ \E n \in Names, e \in Emails, w \in Passwords :
        /\ Goto(p, RegisterRequest(n, e, w), "reg_count")
        /\ loc' = [loc EXCEPT ![p].chk = Len(users)]
    /\ UNCHANGED <<users, clubs, events, ntokens>>

\* POST /api/register arrives and runs get_user_by_email (lines 93-96).
RegisterCheck(p) ==
    /\ p = FreeWorker
    /\ Len(users) + PendingUsers < MaxUsers
    /\ ntokens + PendingTokens < MaxTokens
    /\ \E n \in Names, e \in Emails, w \in Passwords :
        LET rq == RegisterRequest(n, e, w) IN
        IF get_user_by_email(users, e) # NoneUser
        THEN Finish(p, rq, HTTPException(400))
        ELSE /\ Goto(p, rq, "reg_count")
             /\ loc' = [loc EXCEPT ![p].chk = Len(users)]
    /\ UNCHANGED <<users, clubs, events, ntokens>>

\* is_first_user = db["user"].count_documents({}) == 0 (line 98).
RegisterCount(p) ==
    /\ pc[p] = "reg_count"
    /\ loc' = [loc EXCEPT ![p].is_first_user = is_first_user(users),
                          ![p].cnt = Len(users)]
    /\ Goto(p, req[p], "reg_insert")
    /\ UNCHANGED <<users, clubs, events, ntokens>>

\* user_doc (lines 99-105), with the _id that insert_one gives it.
user_doc(body, first, id) ==
    [_id |-> id,
     name |-> body.name,
     email |-> body.email,
     password_hash |-> hash_password(body.password),
     is_admin |-> first,
     sessions |-> <<>>]

\* inserted_id = db["user"].insert_one(user_doc).inserted_id (line 106).
RegisterInsert(p) ==
    /\ pc[p] = "reg_insert"
    /\ LET id == Len(users) + 1 IN
        /\ users' = Append(users, user_doc(req[p].body, loc[p].is_first_user, id))
        /\ loc' = [loc EXCEPT ![p].inserted_id = id,
                              ![p].chk = 0, ![p].cnt = 0]
    /\ Goto(p, req[p], "reg_push")
    /\ UNCHANGED <<clubs, events, ntokens>>

AuthResponse(token, is_admin, name, email) ==
    [status |-> 200, token |-> token, is_admin |-> is_admin,
     name |-> name, email |-> email]

\* token = new_session_token(); update_one($push); return (lines 107-109).
RegisterPush(p) ==
    /\ pc[p] = "reg_push"
    /\ LET token == new_session_token(ntokens) IN
        /\ ntokens' = ntokens + 1
        /\ users' = PushSession(users, loc[p].inserted_id, token)
        /\ Finish(p, req[p], AuthResponse(token, loc[p].is_first_user,
                                          req[p].body.name, req[p].body.email))
    /\ UNCHANGED <<clubs, events>>

\* ------------------------------------------------------------------ login
LoginRequest(e, w) ==
    [kind |-> "login", token |-> None, body |-> [email |-> e, password |-> w]]

\* Mutant: the password is not compared.
InvalidCredentials_NoPassword(user, password) == user = NoneUser

\* `not user or user.get("password_hash") != hash_password(body.password)`
InvalidCredentials(user, password) ==
    user = NoneUser \/ user.password_hash # hash_password(password)

\* POST /api/login arrives; find the user, compare hashes (lines 112-115).
LoginFind(p) ==
    /\ p = FreeWorker
    /\ ntokens + PendingTokens < MaxTokens
    /\ \E e \in Emails, w \in Passwords :
        LET rq   == LoginRequest(e, w)
            user == get_user_by_email(users, e) IN
        IF InvalidCredentials(user, w)
        THEN Finish(p, rq, HTTPException(401))
        ELSE /\ Goto(p, rq, "login_push")
             /\ loc' = [loc EXCEPT ![p].user = Found(user)]
    /\ UNCHANGED <<users, clubs, events, ntokens>>

\* token = new_session_token(); update_one($push); return (lines 116-118).
LoginPush(p) ==
    /\ pc[p] = "login_push"
    /\ LET token == new_session_token(ntokens)
           user  == loc[p].user IN
        /\ ntokens' = ntokens + 1
        /\ users' = PushSession(users, user._id, token)
        /\ Finish(p, req[p],
                  AuthResponse(token, user.is_admin, user.name, user.email))
    /\ UNCHANGED <<clubs, events>>

\* ----------------------------------------------------------------- logout
LogoutRequest(t) == [kind |-> "logout", token |-> t, body |-> None]

Success == [status |-> 200, success |-> TRUE]

\* POST /api/logout arrives; get_user_by_token(token or "") (lines 121-123).
LogoutFind(p) ==
    /\ p = FreeWorker
    /\ \E t \in TokenInputs :
        LET rq   == LogoutRequest(t)
            user == get_user_by_token(users, TokenOrEmpty(t)) IN
        IF user # NoneUser
        THEN /\ Goto(p, rq, "logout_pull")
             /\ loc' = [loc EXCEPT ![p].user = Found(user)]
        ELSE Finish(p, rq, Success)
    /\ UNCHANGED <<users, clubs, events, ntokens>>

\* update_one($pull); return {"success": True} (lines 124-125).
LogoutPull(p) ==
    /\ pc[p] = "logout_pull"
    /\ users' = PullSession(users, loc[p].user._id, req[p].token)
    /\ Finish(p, req[p], Success)
    /\ UNCHANGED <<clubs, events, ntokens>>

\* ------------------------------------------------------- clubs and events
\* Mutant: any authenticated user passes.
NotAdmin_AnyUser(user) == user = NoneUser

\* `not user or not user.get("is_admin", False)`
NotAdmin(user) == user = NoneUser \/ ~user.is_admin

\* database.create_document(collection_name, data): the id of the inserted
\* document, and the collection after the insert.
new_document_id(coll) == Len(coll) + 1

create_document(coll, data) ==
    Append(coll, [_id |-> new_document_id(coll), data |-> data])

\* {"id": id, **data}
Created(id, data) == [status |-> 200, id |-> id, data |-> data]

ClubRequest(t, n, d) ==
    [kind |-> "create_club", token |-> t,
     body |-> [name |-> n, description |-> d]]

\* POST /api/clubs arrives; the inline admin check (lines 136-139).
ClubFind(p) ==
    /\ p = FreeWorker
    /\ Len(clubs) + Len(events) + PendingDocs < MaxDocs
    /\ \E t \in TokenInputs, n \in ClubNames, d \in Descriptions :
        LET rq   == ClubRequest(t, n, d)
            user == get_user_by_token(users, TokenOrEmpty(t)) IN
        IF NotAdmin(user)
        THEN Finish(p, rq, HTTPException(403))
        ELSE /\ Goto(p, rq, "club_insert")
             /\ loc' = [loc EXCEPT ![p].user = Found(user)]
    /\ UNCHANGED <<users, clubs, events, ntokens>>

\* data = {...} (lines 140-144)
club_data(body, user) ==
    [name |-> body.name, description |-> body.description,
     created_by |-> user.email]

\* club_id = create_document("club", data); return (lines 145-146).
ClubInsert(p) ==
    /\ pc[p] = "club_insert"
    /\ LET data == club_data(req[p].body, loc[p].user) IN
        /\ clubs' = create_document(clubs, data)
        /\ Finish(p, req[p], Created(new_document_id(clubs), data))
    /\ UNCHANGED <<users, events, ntokens>>

EventRequest(t, n, d, c) ==
    [kind |-> "create_event", token |-> t,
     body |-> [title |-> n, description |-> None, date |-> d, club_id |-> c]]

\* POST /api/events arrives; the inline admin check (lines 157-160).
EventFind(p) ==
    /\ p = FreeWorker
    /\ Len(clubs) + Len(events) + PendingDocs < MaxDocs
    /\ \E t \in TokenInputs, n \in Titles, d \in Dates, c \in ClubIds :
        LET rq   == EventRequest(t, n, d, c)
            user == get_user_by_token(users, TokenOrEmpty(t)) IN
        IF NotAdmin(user)
        THEN Finish(p, rq, HTTPException(403))
        ELSE /\ Goto(p, rq, "event_insert")
             /\ loc' = [loc EXCEPT ![p].user = Found(user)]
    /\ UNCHANGED <<users, clubs, events, ntokens>>

\* data = {...} (lines 161-167)
event_data(body, user) ==
    [title |-> body.title, description |-> body.description,
     date |-> body.date, club_id |-> body.club_id,
     created_by |-> user.email]

\* event_id = create_document("event", data); return (lines 168-169).
EventInsert(p) ==
    /\ pc[p] = "event_insert"
    /\ LET data == event_data(req[p].body, loc[p].user) IN
        /\ events' = create_document(events, data)
        /\ Finish(p, req[p], Created(new_document_id(events), data))
    /\ UNCHANGED <<users, clubs, ntokens>>

\* The response a handler returned goes out to its client.  It is the one
\* step that follows a return: what the server does next is the same with
\* and without a response on its way out.
Respond ==
    /\ sent # NoResp
    /\ sent' = NoResp
    /\ UNCHANGED <<users, clubs, events, ntokens, pc, req, loc>>

\* ---------------------------------------------------------- specifications
\* The first database call of a handler, made as its request arrives.
ArriveAuth(p) ==
    \/ RegisterCheck(p)
    \/ LoginFind(p)
    \/ LogoutFind(p)

ArriveCreate(p) ==
    \/ ClubFind(p)
    \/ EventFind(p)

\* The later database calls of a handler.
ContinueAuth(p) ==
    \/ RegisterCount(p)
    \/ RegisterInsert(p)
    \/ RegisterPush(p)
    \/ LoginPush(p)
    \/ LogoutPull(p)

ContinueCreate(p) ==
    \/ ClubInsert(p)
    \/ EventInsert(p)

\* Requests of every endpoint, served concurrently by the workers.
Serve(p) ==
    \/ ArriveAuth(p)
    \/ ArriveCreate(p)
    \/ ContinueAuth(p)
    \/ ContinueCreate(p)

Next == Respond \/ \E p \in Procs : Serve(p)

Spec == Init /\ [][Next]_vars

\* Clients that call register, login and logout only, served concurrently.
\* These handlers neither read nor write the clubs and events, and the
\* create handlers write no user: the user collection goes through the same
\* states as under Spec.
ServeAuth(p) ==
    \/ ArriveAuth(p)
    \/ ContinueAuth(p)

NextAuth == Respond \/ \E p \in Procs : ServeAuth(p)

SpecAuth == Init /\ [][NextAuth]_vars

\* Requests of every endpoint served one after another: a request arrives
\* only when no other is in flight.
AllIdle == \A q \in Procs : pc[q] = "idle"

ServeSeq(p) ==
    \/ AllIdle /\ (ArriveAuth(p) \/ ArriveCreate(p))
    \/ ContinueAuth(p)
    \/ ContinueCreate(p)

NextSeq == Respond \/ \E p \in Procs : ServeSeq(p)

SpecSeq == Init /\ [][NextSeq]_vars

\* ------------------------------------------------------- used by the claims
Holds(i, t) == InSeq(t, users[i].sessions)

Resolves(t) == \E i \in 1..Len(users) : Holds(i, t)

DBUnchanged ==
    /\ users' = users
    /\ clubs' = clubs
    /\ events' = events
    /\ ntokens' = ntokens

HasEmail(e) == \E i \in 1..Len(users) : users[i].email = e

\* Worker p serves a newly arrived request of kind k in this step and its
\* handler returns or raises at once.
ArrivesAndEnds(p, k) ==
    pc[p] = "idle" /\ sent'.by = p /\ sent'.req.kind = k

\* Worker p serves a newly arrived request in this step and its handler
\* goes on to the database call l.
ArrivesAndGoesOn(p, l) == pc[p] = "idle" /\ pc'[p] = l

\* Worker p makes the database call l in this step.
Calls(p, l) == pc[p] = l /\ pc'[p] # l

\* C2: a register call whose email belongs to a stored user when its
\* existence check runs is answered 400 and changes nothing in the database
\* (no user added; session lists, password hashes and admin flags as they
\* were); a register call goes past the check only when no stored user has
\* its email.
C2_DuplicateEmailRejected ==
    [][\A p \in Procs :
        /\ ArrivesAndEnds(p, "register") =>
              /\ HasEmail(sent'.req.body.email)
              /\ sent'.resp = [status |-> 400]
              /\ DBUnchanged
        /\ ArrivesAndGoesOn(p, "reg_count") =>
              ~HasEmail(req'[p].body.email)]_vars

C2_Witness ==
    /\ sent.by # None
    /\ sent.req.kind = "register"
    /\ sent.resp.status = 400
    /\ \E i \in 1..Len(users) :
          /\ users[i].email = sent.req.body.email
          /\ users[i].password_hash # hash_password(sent.req.body.password)
          /\ Len(users[i].sessions) > 0

\* C1: when register calls run one after another from an empty collection,
\* the first stored user is the only admin, and every register response
\* carries the admin flag stored for its user: true for the first user and
\* false for every later one.
C1_FirstRegistrantIsTheOnlyAdmin ==
    /\ \A i \in 1..Len(users) : users[i].is_admin <=> (i = 1)
    /\ Len(users) >= 1 =>
          Cardinality({i \in 1..Len(users) : users[i].is_admin}) = 1
    /\ (sent.by # None /\ sent.req.kind = "register" /\ sent.resp.status = 200) =>
          \E i \in 1..Len(users) :
              /\ Holds(i, sent.resp.token)
              /\ users[i].email = sent.req.body.email
              /\ sent.resp.is_admin = users[i].is_admin
              /\ sent.resp.is_admin <=> (i = 1)

C1_Witness ==
    /\ Len(users) = 2
    /\ users[1].email # users[2].email
    /\ sent.by # None
    /\ sent.req.kind = "register"
    /\ sent.resp.status = 200
    /\ sent.resp.is_admin = FALSE
    /\ Holds(2, sent.resp.token)

\* C3: a login call with the email of a stored user and the password that
\* user registered with succeeds (it is not answered 401), and the call that
\* goes on appends one fresh token to the end of that user's session list,
\* keeps the tokens already there, changes no other user and returns the
\* stored is_admin, name and email.
C3_LoginWithRegisteredCredentialsSucceeds ==
    [][\A p \in Procs :
        /\ ArrivesAndEnds(p, "login") =>
              ~\E i \in 1..Len(users) :
                  /\ users[i].email = sent'.req.body.email
                  /\ users[i].password_hash =
                         hash_password(sent'.req.body.password)
        /\ Calls(p, "login_push") =>
              \E i \in 1..Len(users) :
                  /\ users[i].email = req[p].body.email
                  /\ users[i].password_hash = hash_password(req[p].body.password)
                  /\ ~Resolves(sent'.resp.token)
                  /\ sent'.resp.token \notin IssuedTokens
                  /\ users' = [users EXCEPT
                                  ![i].sessions = Append(@, sent'.resp.token)]
                  /\ clubs' = clubs /\ events' = events
                  /\ sent'.resp = [status |-> 200,
                                   token |-> sent'.resp.token,
                                   is_admin |-> users[i].is_admin,
                                   name |-> users[i].name,
                                   email |-> users[i].email]]_vars

FirstWithEmail(e) ==
    Min({i \in 1..Len(users) : users[i].email = e})

BadCredentials(body) ==
    \/ ~HasEmail(body.email)
    \/ users[FirstWithEmail(body.email)].password_hash
           # hash_password(body.password)

\* C4: a login call is answered 401 when no stored user has its email or
\* when the hash of its password differs from the password_hash of the user
\* found by that email; then no token is drawn and nothing stored changes.
\* A login call goes on to issue a token only with matching credentials.
C4_BadLoginRejected ==
    [][\A p \in Procs :
        /\ ArrivesAndEnds(p, "login") =>
              /\ BadCredentials(sent'.req.body)
              /\ sent'.resp = [status |-> 401]
              /\ DBUnchanged
        /\ ArrivesAndGoesOn(p, "login_push") =>
              ~BadCredentials(req'[p].body)]_vars

C4_Witness ==
    /\ sent.by # None
    /\ sent.req.kind = "login"
    /\ sent.resp.status = 401
    /\ \E i \in 1..Len(users) :
          /\ users[i].email = sent.req.body.email
          /\ users[i].password_hash # hash_password(sent.req.body.password)
          /\ Len(users[i].sessions) > 0

\* C5: logout always answers {success: true}.  When the token is in a
\* user's session list the call pulls it from that user: the list keeps its
\* other tokens in order, and every other user, club and event is unchanged.
\* When the token is missing, empty or in no session list, nothing stored
\* changes.
C5_LogoutRemovesExactlyTheToken ==
    [][\A p \in Procs :
        /\ ArrivesAndEnds(p, "logout") =>
              /\ ~Resolves(sent'.req.token)
              /\ sent'.resp = [status |-> 200, success |-> TRUE]
              /\ DBUnchanged
        /\ ArrivesAndGoesOn(p, "logout_pull") =>
              /\ \E i \in 1..Len(users) :
                    /\ Holds(i, req'[p].token)
                    /\ loc'[p].user._id = users[i]._id
              /\ DBUnchanged
        /\ Calls(p, "logout_pull") =>
              /\ sent'.resp = [status |-> 200, success |-> TRUE]
              /\ sent'.req = req[p]
              /\ Len(users') = Len(users)
              /\ \A i \in 1..Len(users) :
                    IF users[i]._id = loc[p].user._id
                    THEN users'[i] = [users[i] EXCEPT !.sessions =
                             SelectSeq(@, LAMBDA t : t # req[p].token)]
                    ELSE users'[i] = users[i]
              /\ clubs' = clubs /\ events' = events
              /\ ntokens' = ntokens]_vars

C5_Witness ==
    /\ sent.by # None
    /\ sent.req.kind = "logout"
    /\ sent.req.token \in IssuedTokens
    /\ ~Resolves(sent.req.token)
    /\ \E i, j \in 1..Len(users) :
          /\ i # j
          /\ Len(users[i].sessions) > 0
          /\ Len(users[j].sessions) > 0

AdminHolds(t) ==
    \E i \in 1..Len(users) : Holds(i, t) /\ users[i].is_admin

CreateGuarded(p, k, l) ==
    /\ ArrivesAndEnds(p, k) =>
          /\ ~AdminHolds(sent'.req.token)
          /\ sent'.resp = [status |-> 403]
          /\ DBUnchanged
    /\ ArrivesAndGoesOn(p, l) =>
          /\ \E i \in 1..Len(users) :
                /\ Holds(i, req'[p].token)
                /\ users[i].is_admin
                /\ loc'[p].user._id = users[i]._id
          /\ DBUnchanged

WithCreator(body, email) ==
    [f \in DOMAIN body \cup {"created_by"} |->
        IF f = "created_by" THEN email ELSE body[f]]

CreateInserts(p, l, coll, collAfter) ==
    Calls(p, l) =>
        LET record == WithCreator(req[p].body, users[loc[p].user._id].email) IN
        /\ Len(collAfter) = Len(coll) + 1
        /\ SubSeq(collAfter, 1, Len(coll)) = coll
        /\ collAfter[Len(collAfter)].data = record
        /\ \A k \in 1..Len(coll) : coll[k]._id # collAfter[Len(collAfter)]._id
        /\ sent'.req = req[p]
        /\ sent'.resp = [status |-> 200,
                         id |-> collAfter[Len(collAfter)]._id,
                         data |-> record]
        /\ users' = users /\ ntokens' = ntokens

\* C6: POST /api/clubs and POST /api/events with no token, a token in no
\* session list or the token of a non-admin user are answered 403 and insert
\* nothing.  With a token in the session list of an admin user the call goes
\* on and inserts exactly one document into its own collection, made of the
\* request body plus created_by = that user's email, and returns that record
\* with the id under which it is stored.
C6_OnlyAdminsCreate ==
    [][\A p \in Procs :
        /\ CreateGuarded(p, "create_club", "club_insert")
        /\ CreateGuarded(p, "create_event", "event_insert")
        /\ CreateInserts(p, "club_insert", clubs, clubs') /\
               (Calls(p, "club_insert") => events' = events)
        /\ CreateInserts(p, "event_insert", events, events') /\
               (Calls(p, "event_insert") => clubs' = clubs)]_vars

C6_Witness ==
    /\ Len(users) = 2
    /\ ~users[2].is_admin
    /\ Len(users[2].sessions) > 0
    /\ Len(clubs) = 1
    /\ sent.by # None
    /\ sent.req.kind = "create_club"
    /\ sent.resp.status = 200
    /\ sent.resp.data.created_by = users[1].email

\* C7: a register call inserts its user even when a stored user already has
\* its email, and that happens exactly when the stored user was inserted
\* after the call's existence check ran; so two concurrent register calls
\* with the same new email both succeed and leave two user records with that
\* email.
C7_DuplicateEmailOnlyByInterleaving ==
    [][\A p \in Procs :
        Calls(p, "reg_insert") =>
            /\ Len(users') = Len(users) + 1
            /\ users'[Len(users')].email = req[p].body.email
            /\ \A i \in 1..Len(users) :
                  users[i].email = req[p].body.email => loc[p].chk < i]_vars

C7_Witness ==
    /\ Len(users) = 2
    /\ users[1].email = users[2].email
    /\ Len(users[1].sessions) > 0
    /\ Len(users[2].sessions) > 0

\* C8: the admin flag a register call stores is the result of its count,
\* whatever the collection holds when the insert runs: the user is stored
\* with is_admin = true exactly when the count ran on an empty collection.
\* So two concurrent register calls that both count zero both store an
\* admin.
C8_AdminDecidedAtCountTime ==
    [][\A p \in Procs :
        Calls(p, "reg_insert") =>
            /\ Len(users') = Len(users) + 1
            /\ users'[Len(users')].is_admin <=> (loc[p].cnt = 0)
            /\ loc[p].cnt <= Len(users)]_vars

C8_Witness ==
    /\ Len(users) = 2
    /\ users[1].email # users[2].email
    /\ users[1].is_admin
    /\ users[2].is_admin
    /\ Len(users[1].sessions) > 0
    /\ Len(users[2].sessions) > 0

\* C9: a token is in a session list exactly from the step that issues it
\* (the $push that ends a register or login call, into that call's user)
\* until a logout with that same token pulls it: only a token drawn in that
\* very step enters a list, nothing but logout's $pull of that token takes
\* one out, so a token that is out never is in a list again; and a call
\* that arrives with a token in no list is treated as unauthenticated
\* (create_club and create_event answer 403, logout changes nothing).
C9_TokenValidFromIssueToLogout ==
    [][/\ users' # users =>
          /\ \A i \in 1..Len(users) : \A t \in IssuedTokens :
                (Holds(i, t) /\ ~InSeq(t, users'[i].sessions)) =>
                    \E p \in Procs :
                        /\ Calls(p, "logout_pull")
                        /\ req[p].token = t
                        /\ loc[p].user._id = users[i]._id
          /\ \A i \in 1..Len(users') : \A k \in 1..Len(users'[i].sessions) :
                LET t == users'[i].sessions[k] IN
                (i > Len(users) \/ ~Holds(i, t)) =>
                    /\ t \notin IssuedTokens
                    /\ sent'.by # None
                    /\ sent'.req.kind \in {"register", "login"}
                    /\ sent'.resp.status = 200
                    /\ sent'.resp.token = t
                    /\ sent'.req.body.email = users'[i].email
                    /\ k = Len(users'[i].sessions)
       /\ \A p \in Procs :
             (/\ ArrivesAndEnds(p, "create_club")
                   \/ ArrivesAndEnds(p, "create_event")
                   \/ ArrivesAndEnds(p, "logout")
              /\ ~Resolves(sent'.req.token)) =>
                 /\ sent'.resp.status = IF sent'.req.kind = "logout"
                                        THEN 200 ELSE 403
                 /\ DBUnchanged]_vars

C9_Witness ==
    /\ Len(users) = 1
    /\ users[1].is_admin
    /\ Len(users[1].sessions) > 0
    /\ sent.by # None
    /\ sent.req.kind = "create_club"
    /\ sent.req.token \in IssuedTokens
    /\ ~Resolves(sent.req.token)
    /\ sent.resp.status = 403

\* C10 as stated: no reachable state holds a user record created by register
\* whose register call has not yet appended its session token.
C10_RegisterIsOneStep ==
    \A p \in Procs :
        ~(/\ pc[p] = "reg_push"
          /\ \E i \in 1..Len(users) : users[i]._id = loc[p].inserted_id)

OneUserWrite ==
    \/ /\ Len(users') = Len(users) + 1
       /\ SubSeq(users', 1, Len(users)) = users
       /\ users'[Len(users')].sessions = <<>>
    \/ /\ Len(users') = Len(users)
       /\ \E i \in 1..Len(users) :
             /\ \A j \in 1..Len(users) : j # i => users'[j] = users[j]
             /\ \E t \in {new_session_token(ntokens)} \cup IssuedTokens :
                   \/ users'[i] = [users[i] EXCEPT !.sessions = Append(@, t)]
                   \/ users'[i] = [users[i] EXCEPT !.sessions =
                                      SelectSeq(@, LAMBDA s : s # t)]

OneDocInsert(coll, collAfter) ==
    /\ Len(collAfter) = Len(coll) + 1
    /\ SubSeq(collAfter, 1, Len(coll)) = coll

\* C10 amended: every step applies at most one database call, on one
\* document: it inserts one user with an empty session list, appends one
\* token to one user's list, pulls one token from one user's list, or
\* inserts one club or one event.  Login, logout, create_club and
\* create_event end with their only write; register alone writes twice, the
\* insert and then the $push, and between the two its user is stored.
C10_OneWritePerStep ==
    [][/\ \/ users' = users /\ clubs' = clubs /\ events' = events
          \/ OneUserWrite /\ clubs' = clubs /\ events' = events
          \/ users' = users /\ OneDocInsert(clubs, clubs') /\ events' = events
          \/ users' = users /\ clubs' = clubs /\ OneDocInsert(events, events')
       /\ \A p \in Procs :
             (pc'[p] # pc[p] /\ <<users, clubs, events>>' # <<users, clubs, events>>) =>
                 \/ pc'[p] = "idle"
                 \/ /\ pc[p] = "reg_insert"
                    /\ pc'[p] = "reg_push"
                    /\ loc'[p].inserted_id = users'[Len(users')]._id]_vars

C10_Witness ==
    \E p \in Procs :
        /\ pc[p] = "reg_push"
        /\ \E i \in 1..Len(users) :
              /\ users[i]._id = loc[p].inserted_id
              /\ users[i].email = req[p].body.email
              /\ users[i].sessions = <<>>

====
